---- MODULE Spec2Model ----
(***************************************************************************)
(* slugger: deploy a pre-built slug to a Heroku app.                       *)
(*                                                                         *)
(* The repository holds two revisions of the one program, func main:       *)
(*   src/main.go             (heroku.Client, no -info, upload response     *)
(*                            discarded)                                   *)
(*   src/unnamed/part_001    (heroku.Service, -info, -stack, -lang-desc,   *)
(*                            upload status checked)                       *)
(* A run is one execution of main in one of the two revisions.  The state  *)
(* of a run is the record `run`: main's local variables, the position in   *)
(* main (pc), the two file handles, what was written to the two output     *)
(* streams and the sequence of calls made to the outside world.  Each      *)
(* statement group of main is one step operator  Step(s, r)  from a run    *)
(* state s and the answer r of the outside world to the next run state.    *)
(*                                                                         *)
(* `twin` is a second run of the same revision on the same command line    *)
(* with only -n flipped, fed the same answers by the outside world.  It is *)
(* stepped together with `run` for as long as both are at the same place   *)
(* in main; it exists to compare a dry run with the run without -n.        *)
(*                                                                         *)
(* Go strings that the program converts (regexp capture, TrimSpace,        *)
(* Replace, ToUpper) are sequences of one-character strings.               *)
(***************************************************************************)
EXTENDS Naturals, Sequences, FiniteSets

VARIABLES run, twin, insync

vars == <<run, twin, insync>>

----------------------------------------------------------------------------
(* Bounds of the model *)

\* how many of the sample outputs of each subprocess / file are drawn
NumSamples == 2

\* the slug file's size in bytes ranges over 0 .. MaxSize
MaxSize == 1

----------------------------------------------------------------------------
(* Strings *)

Empty == <<>>

Min(a, b) == IF a < b THEN a ELSE b

FirstN(seq, n) == { seq[i] : i \in 1..Min(n, Len(seq)) }

Lower == <<"a", "b", "c", "d", "e", "f", "g", "h", "i", "j", "k", "l", "m",
           "n", "o", "p", "q", "r", "s", "t", "u", "v", "w", "x", "y", "z">>

Upper == <<"A", "B", "C", "D", "E", "F", "G", "H", "I", "J", "K", "L", "M",
           "N", "O", "P", "Q", "R", "S", "T", "U", "V", "W", "X", "Y", "Z">>

Digits == <<"0", "1", "2", "3", "4", "5", "6", "7", "8", "9">>

Range(seq) == { seq[i] : i \in 1..Len(seq) }

\* regexp \w
IsWordChar(c) == c \in Range(Lower) \cup Range(Upper) \cup Range(Digits) \cup {"_"}

\* unicode.IsSpace on the characters that occur
IsSpace(c) == c \in {" ", "\n", "\t", "\r"}

\* strings.TrimSpace
TrimSpace(s) ==
    LET keep == { i \in 1..Len(s) : ~IsSpace(s[i]) }
    IN  IF keep = {} THEN Empty
        ELSE LET lo == CHOOSE i \in keep : \A j \in keep : i <= j
                 hi == CHOOSE i \in keep : \A j \in keep : j <= i
             IN  SubSeq(s, lo, hi)

RECURSIVE ReplaceNewline(_)
\* strings.Replace(s, "\n", "\n\t", -1)
ReplaceNewline(s) ==
    IF s = Empty THEN Empty
    ELSE (IF Head(s) = "\n" THEN <<"\n", "\t">> ELSE <<Head(s)>>)
         \o ReplaceNewline(Tail(s))

\* strings.ToUpper
ToUpper(s) ==
    [ i \in 1..Len(s) |->
        IF s[i] \in Range(Lower)
        THEN Upper[CHOOSE k \in 1..Len(Lower) : Lower[k] = s[i]]
        ELSE s[i] ]

NamePrefix == <<"n", "a", "m", "e", "=">>

\* nameMatch = regexp.MustCompile(`\bname=([^\n]+)`): a match starts at i
nameMatchAt(s, i) ==
    /\ i + Len(NamePrefix) <= Len(s)
    /\ SubSeq(s, i, i + Len(NamePrefix) - 1) = NamePrefix
    /\ (i = 1 \/ ~IsWordChar(s[i - 1]))
    /\ s[i + Len(NamePrefix)] # "\n"

\* nameMatch.FindSubmatch(out), then matches[1] when len(matches) > 1;
\* Empty when there is no match (app is left as it was, the empty string)
nameMatch(s) ==
    LET starts == { i \in 1..Len(s) : nameMatchAt(s, i) }
    IN  IF starts = {} THEN Empty
        ELSE LET i  == CHOOSE k \in starts : \A j \in starts : k <= j
                 b  == i + Len(NamePrefix)
                 nl == { j \in b..Len(s) : s[j] = "\n" }
                 e  == IF nl = {} THEN Len(s)
                       ELSE (CHOOSE k \in nl : \A j \in nl : k <= j) - 1
             IN  SubSeq(s, b, e)

\* humanize.Bytes for sizes below 10 bytes: "<n> B"
humanizeBytes(n) == <<Digits[n + 1], " ", "B">>

----------------------------------------------------------------------------
(* The outside world: what the command line, the environment, the          *)
(* subprocesses, the files and the Heroku API can answer                   *)

Revisions == {"main.go", "part_001"}

\* values a string flag can be given on the command line: absent or one value
FlagApp      == {Empty, <<"f", "a">>}
FlagUser     == {Empty, <<"u">>}
FlagPass     == {Empty, <<"p">>}
FlagToken    == {Empty, <<"t">>}
FlagStack    == {Empty, <<"h", "1", "6">>}
FlagRelease  == {Empty, <<"r", "0">>}
FlagCommit   == {Empty, <<"c", "0">>}
FlagLangDesc == {Empty, <<"G", "o">>}

\* flag defaults of -procfile and -slug
DefaultProcfile == <<"P", "r", "o", "c", "f", "i", "l", "e">>
DefaultSlug     == <<"s", "l", "u", "g", ".", "t", "g", "z">>

Flags ==
    [ app : FlagApp, user : FlagUser, pass : FlagPass, token : FlagToken,
      stack : FlagStack, release : FlagRelease, commit : FlagCommit,
      langDesc : FlagLangDesc, noRelease : BOOLEAN, dryRun : BOOLEAN,
      verbose : BOOLEAN, info : BOOLEAN, commitOnly : BOOLEAN ]

\* the process environment: HEROKU_APP, HEROKU_USER, HEROKU_PASSWORD and
\* HEROKU_TOKEN, each unset (os.Getenv gives "") or set to one value
EnvApp   == {Empty, <<"e", "a">>}
EnvUser  == {Empty, <<"e", "u">>}
EnvPass  == {Empty, <<"e", "p">>}
EnvToken == {Empty, <<"e", "t">>}

Envs == [ app : EnvApp, user : EnvUser, pass : EnvPass, token : EnvToken ]

\* stdout of `heroku info --shell`
HerokuInfoSamples ==
    << <<"i", "d", "=", "1", "\n", "n", "a", "m", "e", "=", "w", "1", "\n">>,
       <<"g", "i", "t", "_", "n", "a", "m", "e", "=", "x", "\n">>,
       <<"n", "a", "m", "e", "=", "\n", "x", "-", "n", "a", "m", "e", "=", "b", "\n">> >>

\* stdout of `heroku auth:token`
AuthTokenSamples == << <<"k", "\n">>, <<" ", "\n">>, <<"\t", "k", "2", " ">> >>

\* stdout of `git describe --always --abbrev --dirty`
GitDescribeSamples == << <<"a", "b", "c", "\n">>, <<"v", "1", "\n">>, Empty >>

\* contents of the Procfile, with what yaml.Unmarshal makes of them
ProcfileSamples ==
    << [bytes |-> <<"w", ":", " ", "x", "\n", "j", ":", " ", "y", "\n">>, yamlErr |-> FALSE],
       [bytes |-> <<":", " ", "[">>, yamlErr |-> TRUE],
       [bytes |-> <<"\n", "w", ":", " ", "x">>, yamlErr |-> FALSE] >>

\* a subprocess: cmd.Output() gives its stdout and an error or nil
CmdResults(samples) ==
    [ err : {FALSE}, out : FirstN(samples, NumSamples) ]
        \cup [ err : {TRUE}, out : {Empty, samples[1]} ]

\* the slug Heroku registers: its id and the blob to send it to
SlugSamples ==
    << [ id |-> <<"s", "1">>, url |-> <<"h", ":", "/", "b">>, method |-> <<"p", "u", "t">> ],
       [ id |-> <<"s", "2">>, url |-> <<":", "b">>, method |-> <<"p", "u", "t">> ],
       [ id |-> <<"s", "3">>, url |-> <<"/", "b">>, method |-> <<"P", "u", "t">> ] >>

NoSlug == [ id |-> Empty, url |-> Empty, method |-> Empty ]

\* HTTP status codes the blob store answers the upload with
StatusCodes == {200, 201, 202, 409}

\* resp.StatusCode > 201 is fatal
StatusCreated == 201

\* the commit of a slug as SlugInfo reports it: *string, nil or a value
NilString == <<"n", "i", "l">>
InfoCommits == {NilString, <<"c", "1">>}

----------------------------------------------------------------------------
(* The state of a run *)

\* a call to the outside world: what was called, with what (or what it gave
\* back), and whether it failed
Event(op, args, err) == [op |-> op, args |-> args, err |-> err]

Line(msg, arg) == [msg |-> msg, arg |-> arg]

InitRun(rev, flags, env) ==
    [ rev      |-> rev,
      flags    |-> flags,
      env      |-> env,
      pc       |-> "FlagParse",
      exit     |-> "running",
      \* main's local variables
      app      |-> flags.app,
      user     |-> flags.user,
      pass     |-> flags.pass,
      token    |-> flags.token,
      release  |-> flags.release,
      commit   |-> flags.commit,
      procBytes |-> Empty,
      slug     |-> NoSlug,
      size     |-> 0,
      status   |-> 0,
      client   |-> "none",
      bearer   |-> Empty,
      \* the two *os.File handles, and the deferred f.Close()
      procfile |-> "unopened",
      slugfile |-> "unopened",
      deferred |-> FALSE,
      \* os.Stderr, os.Stdout, and the calls made to the outside world
      stderr   |-> <<>>,
      stdout   |-> <<>>,
      calls    |-> <<>> ]

\* log.Println / fmt.Fprint(os.Stderr, ...)
Log(s, msg, arg) == [s EXCEPT !.stderr = Append(@, Line(msg, arg))]

Call(s, op, args, err) == [s EXCEPT !.calls = Append(@, Event(op, args, err))]

\* os.Exit(1): the process ends at once, deferred calls do not run
osExit1(s) == [s EXCEPT !.pc = "exit", !.exit = "1"]

\* errlog.Fatal / errlog.Fatalf / log.Fatal: print, then os.Exit(1)
Fatal(s, msg) == osExit1(Log(s, msg, Empty))

\* flag.Usage: the usage text and the defaults on os.Stderr, then os.Exit(1)
Usage(s) == osExit1(Log(s, "Usage:", Empty))

\* main returns: the deferred f.Close() runs, the process exits with status 0
Return(s) ==
    [s EXCEPT !.pc = "exit", !.exit = "0",
              !.slugfile = IF s.deferred /\ @ = "open" THEN "closed" ELSE @]

\* a nil pointer dereference: the runtime panics, the deferred f.Close() runs
\* while the stack unwinds, the process exits with status 2
Panic(s) ==
    [Log(s, "panic:", Empty) EXCEPT
        !.pc = "exit", !.exit = "2",
        !.slugfile = IF s.deferred /\ @ = "open" THEN "closed" ELSE @]

Goto(s, pc) == [s EXCEPT !.pc = pc]

----------------------------------------------------------------------------
(* main, statement group by statement group *)

\* flag.Parse(): a flag the revision does not define is an error, which
\* prints the usage text through flag.Usage, and that calls os.Exit(1)
FlagParse(s) ==
    IF /\ s.rev = "main.go"
       /\ \/ s.flags.info \/ s.flags.commitOnly
          \/ s.flags.stack # Empty \/ s.flags.langDesc # Empty
    THEN Usage(Log(s, "flag provided but not defined", Empty))
    ELSE Goto(s, IF s.rev = "part_001" THEN "InfoCheck" ELSE "GetAppName")

\* InfoCheck with the check dropped
InfoCheck_Dropped(s) == Goto(s, "GetAppName")

\* if *info && release == "" { errlog.Fatal(...) }
InfoCheck(s) ==
    IF s.flags.info /\ s.release = Empty
    THEN Fatal(s, "use of -info requires use of -release")
    ELSE Goto(s, "GetAppName")

\* GetAppName with HEROKU_APP overriding the flag
GetAppName_EnvFirst(s) ==
    [Call(s, "Getenv HEROKU_APP", <<s.env.app>>, FALSE) EXCEPT
        !.app = IF s.env.app # Empty THEN s.env.app ELSE s.app,
        !.pc = "HerokuInfo"]

\* if app == "" { app = os.Getenv("HEROKU_APP") }
GetAppName(s) ==
    IF s.app = Empty
    THEN [Call(s, "Getenv HEROKU_APP", <<s.env.app>>, FALSE) EXCEPT
             !.app = s.env.app, !.pc = "HerokuInfo"]
    ELSE Goto(s, "HerokuInfo")

\* if app == "" { heroku info --shell; fatal on error; nameMatch }
HerokuInfo(s, r) ==
    IF s.app = Empty
    THEN LET c == Call(s, "heroku info --shell", <<r.out>>, r.err)
         IN  IF r.err
             THEN Fatal(c, "Unable to determine app name:")
             ELSE [c EXCEPT !.app = nameMatch(r.out), !.pc = "AppCheck"]
    ELSE Goto(s, "AppCheck")

\* if app == "" { flag.Usage(); ... }; log.Println("App: ", app)
AppCheck(s) ==
    IF s.app = Empty
    THEN Usage(s)
    ELSE Goto(Log(s, "App: ", s.app), "GetAuth")

\* user, pass and token from HEROKU_USER, HEROKU_PASSWORD, HEROKU_TOKEN when
\* the flag left them empty
GetAuth(s) ==
    LET e  == s.env
        s1 == IF s.user = Empty
              THEN [Call(s, "Getenv HEROKU_USER", <<e.user>>, FALSE) EXCEPT !.user = e.user]
              ELSE s
        s2 == IF s1.pass = Empty
              THEN [Call(s1, "Getenv HEROKU_PASSWORD", <<e.pass>>, FALSE) EXCEPT !.pass = e.pass]
              ELSE s1
        s3 == IF s2.token = Empty
              THEN [Call(s2, "Getenv HEROKU_TOKEN", <<e.token>>, FALSE) EXCEPT !.token = e.token]
              ELSE s2
    IN  Goto(s3, "AuthToken")

\* if token == "" { heroku auth:token; fatal on error without user and pass;
\* token = strings.TrimSpace(string(out)) }
AuthToken(s, r) ==
    IF s.token = Empty
    THEN LET c == Call(s, "heroku auth:token", <<r.out>>, r.err)
         IN  IF r.err /\ s.user = Empty /\ s.pass = Empty
             THEN Fatal(c, "Unable to determine credentials:")
             ELSE [c EXCEPT !.token = TrimSpace(r.out), !.pc = "CredCheck"]
    ELSE Goto(s, "CredCheck")

\* CredCheck with the check dropped
CredCheck_Dropped(s) == Goto(s, "InitClient")

\* if user == "" && pass == "" && token == "" { errlog.Printf; flag.Usage() }
CredCheck(s) ==
    IF s.user = Empty /\ s.pass = Empty /\ s.token = Empty
    THEN Usage(Log(s, "Unable to determine credentials.", Empty))
    ELSE Goto(s, "InitClient")

\* NextStage with -no-release forgotten in the test before the release
NextStage_IgnoreNoRelease(s) ==
    IF s.rev = "part_001" /\ s.flags.info THEN "SlugInfo"
    ELSE IF ~s.flags.dryRun THEN "ReleaseCreate"
    ELSE "Report"

\* NextStage with -n forgotten in the test before the release
NextStage_IgnoreDryRun(s) ==
    IF s.rev = "part_001" /\ s.flags.info THEN "SlugInfo"
    ELSE IF ~s.flags.noRelease THEN "ReleaseCreate"
    ELSE "Report"

\* if *info {...} else if !(*dryRun || *noRelease) {...}; then the report.
\* main.go has no -info branch.
NextStage(s) ==
    IF s.rev = "part_001" /\ s.flags.info THEN "SlugInfo"
    ELSE IF ~(s.flags.dryRun \/ s.flags.noRelease) THEN "ReleaseCreate"
    ELSE "Report"

\* InitClient with the test of release dropped: the upload stage always runs
InitClient_AlwaysUpload(s) ==
    Goto([s EXCEPT !.client = "built", !.bearer = s.token], "OpenProcfile")

\* the Heroku client (main.go) or service (part_001) with the credentials;
\* then  if release == "" { read, register and upload the slug }
InitClient(s) ==
    LET c == [s EXCEPT !.client = "built", !.bearer = s.token]
    IN  Goto(c, IF s.release = Empty THEN "OpenProcfile" ELSE NextStage(s))

\* f, err := os.Open(procFile)
OpenProcfile(s, err) ==
    LET c == Call(s, "os.Open", <<DefaultProcfile>>, err)
    IN  IF err THEN Fatal(c, "open Procfile")
        ELSE [c EXCEPT !.procfile = "open", !.pc = "ReadProcfile"]

\* ioutil.ReadAll(io.LimitReader(f, 1<<20)); fatal on error; f.Close()
ReadProcfile(s, r) ==
    IF r.err THEN Fatal(s, "read Procfile")
    ELSE [s EXCEPT !.procBytes = r.sample.bytes, !.procfile = "closed",
                   !.pc = "ParseProcfile"]

\* yaml.Unmarshal of the bytes read
yamlErr(bytes) == \E i \in 1..Len(ProcfileSamples) :
                      /\ ProcfileSamples[i].bytes = bytes
                      /\ ProcfileSamples[i].yamlErr

\* yaml.Unmarshal(procBytes, &processTypes); log.Println("Processes: ", procText)
ParseProcfile(s) ==
    IF yamlErr(s.procBytes) THEN Fatal(s, "yaml:")
    ELSE Goto(Log(s, "Processes: ", ReplaceNewline(TrimSpace(s.procBytes))), "OpenSlug")

\* f, err = os.Open(slugFile); defer f.Close(); log.Println("Slug file: ", slugFile)
OpenSlug(s, err) ==
    LET c == Call(s, "os.Open", <<DefaultSlug>>, err)
    IN  IF err THEN Fatal(c, "open slug")
        ELSE [Log(c, "Slug file: ", DefaultSlug) EXCEPT
                 !.slugfile = "open", !.deferred = TRUE, !.pc = "GitDescribe"]

\* if commit == "" { git describe; on success commit = TrimSpace(out) };
\* log.Println("Commit: ", commit)
GitDescribe(s, r) ==
    LET c == IF s.commit = Empty
             THEN [Call(s, "git describe", <<r.out>>, r.err) EXCEPT
                      !.commit = IF r.err THEN Empty ELSE TrimSpace(r.out)]
             ELSE s
    IN  Goto(Log(c, "Commit: ", c.commit),
             IF s.rev = "part_001" THEN "SlugOpts" ELSE "SlugCreate")

\* part_001: log the language description and the stack when given
SlugOpts(s) ==
    LET s1 == IF s.flags.langDesc # Empty
              THEN Log(s, "Language Description: ", s.flags.langDesc) ELSE s
        s2 == IF s.flags.stack # Empty
              THEN Log(s1, "Stack:", s.flags.stack) ELSE s1
    IN  Goto(s2, "SlugCreate")

\* slug, err := SlugCreate(app, processTypes, commit ...); fatal on error
SlugCreate(s, r) ==
    LET c == Call(s, "SlugCreate", <<s.app, s.commit>>, r.err)
    IN  IF r.err THEN Fatal(c, "slug:")
        ELSE [c EXCEPT !.slug = r.slug, !.pc = "Stat"]

\* stat, err := f.Stat(); fatal on error; log.Println("Uploading slug: ", size)
Stat(s, r) ==
    IF r.err THEN Fatal(s, "stat")
    ELSE [Log(s, "Uploading slug: ", humanizeBytes(r.size)) EXCEPT
             !.size = r.size, !.pc = "NewRequest"]

\* the method of the upload request: strings.ToUpper(slug.Blob.Method) in
\* main.go, http.MethodPut in part_001
reqMethod(s) ==
    IF s.rev = "main.go" THEN ToUpper(s.slug.method) ELSE <<"P", "U", "T">>

\* url.Parse as http.NewRequest calls it: "missing protocol scheme" for a
\* URL that starts with a colon
urlParseErr(u) == u # Empty /\ u[1] = ":"

\* req, err := http.NewRequest(method, slug.Blob.URL, f); fatal on error
NewRequest(s) ==
    IF urlParseErr(s.slug.url) THEN Fatal(s, "parse url")
    ELSE Goto(s, "Upload")

\* Upload with the test of -n dropped: the request is always sent
Upload_IgnoreDryRun(s) ==
    Goto(s, IF s.rev = "part_001" /\ s.flags.verbose THEN "DumpRequest" ELSE "Do")

\* if *dryRun { log "Upload skipped (dry run)" } else { ... Do(req) ... };
\* release = slug.ID
Upload(s) ==
    IF s.flags.dryRun
    THEN [Log(s, "Upload skipped (dry run)", Empty) EXCEPT
             !.release = s.slug.id, !.pc = NextStage(s)]
    ELSE Goto(s, IF s.rev = "part_001" /\ s.flags.verbose THEN "DumpRequest" ELSE "Do")

\* part_001, -v: httputil.DumpRequestOut(req, false) to os.Stderr
DumpRequest(s, err) ==
    IF err THEN Fatal(s, "debug:")
    ELSE Goto(Log(s, "PUT request dump", s.slug.url), "Do")

\* http.DefaultClient.Do(req): the transport closes the request body, which
\* is the slug file.  part_001 takes a status above 201 as fatal; main.go
\* discards the response.  Then release = slug.ID.
Do(s, r) ==
    LET c == [Call(s, "http.Do", <<reqMethod(s), s.slug.url>>, r.err) EXCEPT
                 !.slugfile = "closed"]
    IN  IF r.err THEN Fatal(c, "upload:")
        ELSE LET d == [c EXCEPT !.status = r.status]
             IN  IF s.rev = "part_001" /\ r.status > StatusCreated
                 THEN Fatal(d, "upload: status")
                 ELSE [d EXCEPT !.release = s.slug.id, !.pc = NextStage(s)]

\* part_001, -info: SlugInfo, json.MarshalIndent, print the commit or the
\* JSON on os.Stdout, return
SlugInfo(s, r) ==
    LET c == Call(s, "SlugInfo", <<s.app, s.release>>, r.err)
    IN  IF r.err THEN Fatal(c, "slug[]:")
        ELSE IF r.marshalErr THEN Fatal(c, "JSON from slug():")
        ELSE IF s.flags.commitOnly
             THEN IF r.commit = NilString THEN Panic(c)
                  ELSE Return([c EXCEPT !.stdout = Append(@, Line("commit", r.commit))])
             ELSE Return([c EXCEPT !.stdout = Append(@, Line("slug JSON", s.release))])

\* log "Releasing slug: "; ReleaseCreate(app, release); fatal on error;
\* log "Deployed version: "
ReleaseCreate(s, r) ==
    LET c == Call(Log(s, "Releasing slug: ", s.release),
                  "ReleaseCreate", <<s.app, s.release>>, r.err)
    IN  IF r.err THEN Fatal(c, "release:")
        ELSE Goto(Log(c, "Deployed version: ", r.version), "Report")

\* Report with the label written to os.Stdout too
Report_LabelOnStdout(s) ==
    Return([s EXCEPT !.stdout = @ \o <<Line("Slug ID: ", Empty), Line("Println", s.release)>>])

\* fmt.Fprint(os.Stderr, "Slug ID: "); fmt.Println(release); main returns
Report(s) ==
    Return([Log(s, "Slug ID: ", Empty) EXCEPT
               !.stdout = Append(@, Line("Println", s.release))])

----------------------------------------------------------------------------
(* The runs *)

\* the same command line with -n flipped
FlipDryRun(flags) == [flags EXCEPT !.dryRun = ~@]

\* a step of main: run goes to the state r and twin, while it is at the same
\* place in main, to the state t that the same step with the same answer of
\* the outside world gives it
Lockstep(r, t) ==
    /\ run' = r
    /\ twin' = IF insync THEN t ELSE twin
    /\ insync' = (insync /\ twin'.pc = run'.pc)

StepFlagParse == run.pc = "FlagParse" /\ Lockstep(FlagParse(run), FlagParse(twin))

StepInfoCheck == run.pc = "InfoCheck" /\ Lockstep(InfoCheck(run), InfoCheck(twin))

StepGetAppName == run.pc = "GetAppName" /\ Lockstep(GetAppName(run), GetAppName(twin))

StepHerokuInfo ==
    /\ run.pc = "HerokuInfo"
    /\ \E r \in CmdResults(HerokuInfoSamples) : Lockstep(HerokuInfo(run, r), HerokuInfo(twin, r))

StepAppCheck == run.pc = "AppCheck" /\ Lockstep(AppCheck(run), AppCheck(twin))

StepGetAuth == run.pc = "GetAuth" /\ Lockstep(GetAuth(run), GetAuth(twin))

StepAuthToken ==
    /\ run.pc = "AuthToken"
    /\ \E r \in CmdResults(AuthTokenSamples) : Lockstep(AuthToken(run, r), AuthToken(twin, r))

StepCredCheck == run.pc = "CredCheck" /\ Lockstep(CredCheck(run), CredCheck(twin))

StepInitClient == run.pc = "InitClient" /\ Lockstep(InitClient(run), InitClient(twin))

StepOpenProcfile ==
    /\ run.pc = "OpenProcfile"
    /\ \E err \in BOOLEAN : Lockstep(OpenProcfile(run, err), OpenProcfile(twin, err))

StepReadProcfile ==
    /\ run.pc = "ReadProcfile"
    /\ \E r \in [err : BOOLEAN, sample : FirstN(ProcfileSamples, NumSamples)] :
           Lockstep(ReadProcfile(run, r), ReadProcfile(twin, r))

StepParseProcfile == run.pc = "ParseProcfile" /\ Lockstep(ParseProcfile(run), ParseProcfile(twin))

StepOpenSlug ==
    /\ run.pc = "OpenSlug"
    /\ \E err \in BOOLEAN : Lockstep(OpenSlug(run, err), OpenSlug(twin, err))

StepGitDescribe ==
    /\ run.pc = "GitDescribe"
    /\ \E r \in CmdResults(GitDescribeSamples) : Lockstep(GitDescribe(run, r), GitDescribe(twin, r))

StepSlugOpts == run.pc = "SlugOpts" /\ Lockstep(SlugOpts(run), SlugOpts(twin))

StepSlugCreate ==
    /\ run.pc = "SlugCreate"
    /\ \E r \in [err : {TRUE}, slug : {NoSlug}]
                  \cup [err : {FALSE}, slug : FirstN(SlugSamples, NumSamples)] :
           Lockstep(SlugCreate(run, r), SlugCreate(twin, r))

StepStat ==
    /\ run.pc = "Stat"
    /\ \E r \in [err : BOOLEAN, size : 0..MaxSize] : Lockstep(Stat(run, r), Stat(twin, r))

StepNewRequest == run.pc = "NewRequest" /\ Lockstep(NewRequest(run), NewRequest(twin))

StepUpload == run.pc = "Upload" /\ Lockstep(Upload(run), Upload(twin))

StepDumpRequest ==
    /\ run.pc = "DumpRequest"
    /\ \E err \in BOOLEAN : Lockstep(DumpRequest(run, err), DumpRequest(twin, err))

StepDo ==
    /\ run.pc = "Do"
    /\ \E r \in [err : {TRUE}, status : {0}] \cup [err : {FALSE}, status : StatusCodes] :
           Lockstep(Do(run, r), Do(twin, r))

StepSlugInfo ==
    /\ run.pc = "SlugInfo"
    /\ \E r \in [err : BOOLEAN, marshalErr : BOOLEAN, commit : InfoCommits] :
           Lockstep(SlugInfo(run, r), SlugInfo(twin, r))

StepReleaseCreate ==
    /\ run.pc = "ReleaseCreate"
    /\ \E r \in [err : BOOLEAN, version : {<<"7">>}] : Lockstep(ReleaseCreate(run, r), ReleaseCreate(twin, r))

StepReport == run.pc = "Report" /\ Lockstep(Report(run), Report(twin))

\* main starts, in one of the revisions, on a command line and in an
\* environment
Start(flagset, envset) ==
    /\ \E rev \in Revisions, flags \in flagset, env \in envset :
           /\ run = InitRun(rev, flags, env)
           /\ twin = InitRun(rev, FlipDryRun(flags), env)
    /\ insync = TRUE

\* Every combination of the flags that steer the run after the configuration
\* is resolved; the credentials come from -token, from the environment (all
\* four variables set, or none) or from `heroku auth:token`.
FlowFlags == { f \in Flags : f.user = Empty /\ f.pass = Empty }

FlowEnvs ==
    { e \in Envs : (e.app = Empty) = (e.user = Empty)
                   /\ (e.user = Empty) = (e.pass = Empty)
                   /\ (e.pass = Empty) = (e.token = Empty) }

Init == Start(FlowFlags, FlowEnvs)

\* Every combination of -app, -user, -password, -token and of the four
\* environment variables; of the other flags -release, -info and -n vary,
\* and -v is given.
ConfigFlags ==
    { f \in Flags : /\ f.verbose /\ ~f.commitOnly /\ ~f.noRelease
                    /\ f.stack = Empty /\ f.langDesc = Empty /\ f.commit = Empty }

InitConfig == Start(ConfigFlags, Envs)

Next ==
    \/ StepFlagParse
    \/ StepInfoCheck
    \/ StepGetAppName
    \/ StepHerokuInfo
    \/ StepAppCheck
    \/ StepGetAuth
    \/ StepAuthToken
    \/ StepCredCheck
    \/ StepInitClient
    \/ StepOpenProcfile
    \/ StepReadProcfile
    \/ StepParseProcfile
    \/ StepOpenSlug
    \/ StepGitDescribe
    \/ StepSlugOpts
    \/ StepSlugCreate
    \/ StepStat
    \/ StepNewRequest
    \/ StepUpload
    \/ StepDumpRequest
    \/ StepDo
    \/ StepSlugInfo
    \/ StepReleaseCreate
    \/ StepReport

Spec == Init /\ [][Next]_vars

SpecConfig == InitConfig /\ [][Next]_vars

----------------------------------------------------------------------------
(* Vocabulary of the properties *)

Called(s, op) == \E i \in 1..Len(s.calls) : s.calls[i].op = op

CallsOf(s, op) == { i \in 1..Len(s.calls) : s.calls[i].op = op }

Logged(s, msg) == \E i \in 1..Len(s.stderr) : s.stderr[i].msg = msg

Exited(s) == s.pc = "exit"

\* the calls that go over the network
NetworkOps == {"SlugCreate", "http.Do", "SlugInfo", "ReleaseCreate"}

\* the actions of the upload stage that reach outside the process
UploadStageOps == {"os.Open", "git describe", "SlugCreate", "http.Do"}

\* the places of main before the configuration is resolved
ConfigPcs == {"FlagParse", "InfoCheck", "GetAppName", "HerokuInfo", "AppCheck",
              "GetAuth", "AuthToken", "CredCheck"}

----------------------------------------------------------------------------
(* C1 *)

\* C1: in a run given a slug id with -release, no action of the upload stage
\* occurs (neither file is opened, git describe is not run, no SlugCreate, no
\* HTTP upload), no slug descriptor is created, and the id the info query,
\* the release call and the report use is the one given.
C1_ReleaseGivenSkipsUpload ==
    run.flags.release # Empty =>
        /\ \A i \in 1..Len(run.calls) : run.calls[i].op \notin UploadStageOps
        /\ run.procfile = "unopened" /\ run.slugfile = "unopened"
        /\ run.slug = NoSlug
        /\ run.release = run.flags.release
        /\ \A i \in 1..Len(run.calls) :
               run.calls[i].op \in {"SlugInfo", "ReleaseCreate"}
                   => run.calls[i].args = <<run.app, run.flags.release>>
        /\ \A i \in 1..Len(run.stdout) :
               run.stdout[i].msg \in {"Println", "slug JSON"}
                   => run.stdout[i].arg = run.flags.release

\* a run given -release that released the given slug and reported its id
C1_Witness ==
    /\ run.flags.release # Empty
    /\ Exited(run) /\ run.exit = "0"
    /\ Called(run, "ReleaseCreate")
    /\ run.stdout = <<Line("Println", run.flags.release)>>

----------------------------------------------------------------------------
(* C4 *)

\* C4: a run with -info and without -release ends fatally, with a non-zero
\* exit status, before any network call: it makes no call at all to the
\* outside world, builds no client, and stops at the flag checks.
C4_InfoWithoutReleaseIsFatal ==
    (run.flags.info /\ run.flags.release = Empty) =>
        /\ run.pc \in {"FlagParse", "InfoCheck", "exit"}
        /\ \A i \in 1..Len(run.calls) : run.calls[i].op \notin NetworkOps
        /\ run.client = "none"
        /\ Exited(run) => (run.exit = "1" /\ run.stdout = <<>>)

\* part_001 given -info alone has ended on "use of -info requires use of -release"
C4_Witness ==
    /\ run.rev = "part_001"
    /\ run.flags.info /\ run.flags.release = Empty
    /\ Exited(run) /\ run.exit = "1"
    /\ Logged(run, "use of -info requires use of -release")

----------------------------------------------------------------------------
(* C2 *)

\* the run has come to where main acts on -n: it has skipped the upload, or,
\* given -release, it has passed the test before the release
ActedOnDryRun(s) ==
    \/ Logged(s, "Upload skipped (dry run)")
    \/ s.pc = "Report"
    \/ Exited(s) /\ \E i \in 1..Len(s.stdout) : s.stdout[i].msg = "Println"

\* C2: a run with -n sends no HTTP upload and makes no release call; and up
\* to where main acts on -n it is at the same place, has made the same calls
\* in the same order and has written the same lines as the run without -n
\* on the same command line, in the same environment, given the same answers.
C2_DryRunSameLocalSteps ==
    run.flags.dryRun =>
        /\ ~Called(run, "http.Do")
        /\ ~Called(run, "ReleaseCreate")
        /\ ~ActedOnDryRun(run) =>
               /\ ~twin.flags.dryRun
               /\ twin.flags = FlipDryRun(run.flags)
               /\ twin.pc = run.pc
               /\ twin.calls = run.calls
               /\ twin.stderr = run.stderr
               /\ twin.stdout = run.stdout

\* a dry run that resolved the configuration, parsed the Procfile, opened the
\* slug file and skipped the upload, ending with status 0, while the run
\* without -n stands at the upload
C2_Witness ==
    /\ run.flags.dryRun /\ run.flags.release = Empty
    /\ Exited(run) /\ run.exit = "0"
    /\ Logged(run, "Processes: ") /\ Logged(run, "Slug file: ")
    /\ Logged(run, "Upload skipped (dry run)")
    /\ twin.pc \in {"DumpRequest", "Do"}
    /\ twin.calls = run.calls

----------------------------------------------------------------------------
(* C3 *)

\* C3: in a run without -n and without -release the release call is made
\* only after the upload was answered with a status of at most 201; an
\* answer with a status above 201 ends the run fatally, with a non-zero exit
\* status, no release call and no slug id on standard output.
C3_ReleaseOnlyAfterUploadOK ==
    (~run.flags.dryRun /\ run.flags.release = Empty) =>
        /\ Called(run, "ReleaseCreate") =>
               /\ Called(run, "http.Do")
               /\ run.status \in 1..StatusCreated
        /\ run.status > StatusCreated =>
               /\ Exited(run) /\ run.exit # "0"
               /\ ~Called(run, "ReleaseCreate")
               /\ run.stdout = <<>>

----------------------------------------------------------------------------
(* C5 *)

\* C5: a release call is made only if none of -info, -n and -no-release is
\* set.  With -info the run that gets as far makes the slug info query,
\* prints it and stops, and never releases.  With none of the three set, a
\* run that ends with status 0 has made exactly one release call, for the
\* app and the target slug id; a release call that fails ends the run
\* fatally.
C5_ReleaseOnlyWithoutInfoDryRunNoRelease ==
    /\ Called(run, "ReleaseCreate") =>
           ~run.flags.info /\ ~run.flags.dryRun /\ ~run.flags.noRelease
    /\ Cardinality(CallsOf(run, "ReleaseCreate")) <= 1
    /\ run.flags.info =>
           /\ run.pc \notin {"ReleaseCreate", "Report"}
           /\ Called(run, "SlugInfo") => Exited(run)
           /\ (Exited(run) /\ run.exit = "0") =>
                  /\ Called(run, "SlugInfo")
                  /\ Len(run.stdout) = 1
                  /\ run.stdout[1].msg \in {"slug JSON", "commit"}
    /\ (~run.flags.info /\ ~run.flags.dryRun /\ ~run.flags.noRelease
            /\ Exited(run) /\ run.exit = "0") =>
           \E i \in 1..Len(run.calls) :
               /\ CallsOf(run, "ReleaseCreate") = {i}
               /\ run.calls[i].args = <<run.app, run.release>>
               /\ ~run.calls[i].err
    /\ \A i \in CallsOf(run, "ReleaseCreate") :
           run.calls[i].err =>
               Exited(run) /\ run.exit = "1" /\ run.stdout = <<>>

\* a run with none of the three flags that uploaded a slug and released it
C5_Witness ==
    /\ ~run.flags.info /\ ~run.flags.dryRun /\ ~run.flags.noRelease
    /\ Exited(run) /\ run.exit = "0"
    /\ Called(run, "http.Do")
    /\ \E i \in 1..Len(run.calls) :
           /\ run.calls[i].op = "ReleaseCreate"
           /\ run.calls[i].args = <<run.app, run.slug.id>>
    /\ Logged(run, "Deployed version: ")

----------------------------------------------------------------------------
(* C6 *)

\* C6 as claimed: a run that ends with status 0 has written the resolved
\* slug id to standard output, as its last output and as the only thing on
\* standard output; a run that ends fatally has a non-zero status and has
\* not written the id to standard output.
C6_ExitZeroPrintsOnlySlugId ==
    Exited(run) =>
        /\ run.exit = "0" =>
               /\ run.stdout = <<Line("Println", run.release)>>
               /\ run.stderr[Len(run.stderr)].msg = "Slug ID: "
        /\ run.exit # "0" => run.stdout = <<>>

\* C6 amended: as claimed for the runs without -info.  A run of part_001
\* with -info that ends with status 0 has written the queried slug as JSON,
\* or with -commit-only its commit, to standard output and not the bare id.
\* Nothing is written to standard output before the step that ends the run.
C6_ExitZeroPrintsSlugIdUnlessInfo ==
    /\ ~Exited(run) => run.stdout = <<>>
    /\ Exited(run) =>
           /\ (run.exit = "0" /\ ~run.flags.info) =>
                  /\ run.stdout = <<Line("Println", run.release)>>
                  /\ run.stderr[Len(run.stderr)].msg = "Slug ID: "
           /\ (run.exit = "0" /\ run.flags.info) =>
                  /\ Len(run.stdout) = 1
                  /\ run.stdout[1].msg \in {"slug JSON", "commit"}
                  /\ ~Logged(run, "Slug ID: ")
           /\ run.exit # "0" => run.stdout = <<>>

\* a run that uploaded a fresh slug and reported its id
C6_Witness ==
    /\ Exited(run) /\ run.exit = "0" /\ ~run.flags.info
    /\ run.flags.release = Empty
    /\ run.stdout = <<Line("Println", run.slug.id)>>
    /\ run.slug.id # Empty

----------------------------------------------------------------------------
(* C7 *)

TokenCmd == "heroku auth:token"

NoCredentials(s) == s.user = Empty /\ s.pass = Empty /\ s.token = Empty

----------------------------------------------------------------------------
(* C8 *)

InfoCmd == "heroku info --shell"

\* out holds a line part  name=<v>  with v not empty, up to the end of its line
Captured(out, v) ==
    /\ v # Empty
    /\ \A k \in 1..Len(v) : v[k] # "\n"
    /\ \E i \in 1..Len(out) :
           /\ i + Len(NamePrefix) + Len(v) - 1 <= Len(out)
           /\ SubSeq(out, i, i + Len(NamePrefix) + Len(v) - 1) = NamePrefix \o v
           /\ \/ i + Len(NamePrefix) + Len(v) > Len(out)
              \/ out[i + Len(NamePrefix) + Len(v)] = "\n"

\* C8: the app name is the first non-empty one of the -app flag, HEROKU_APP
\* and the value the pattern name=<value> captures in the output of
\* `heroku info --shell`.  HEROKU_APP is read only when the flag is empty and
\* the subprocess is run only when both are empty.  A failure of the
\* subprocess is fatal.  A run whose name is still empty after the three
\* sources ends with status 1, on the usage text, before any credential is
\* looked up, the client is built or a network call is made.
C8_AppNamePriority ==
    /\ Called(run, "Getenv HEROKU_APP") => run.flags.app = Empty
    /\ Called(run, InfoCmd) => run.flags.app = Empty /\ run.env.app = Empty
    /\ Logged(run, "App: ") =>
           /\ run.app # Empty
           /\ \E i \in 1..Len(run.stderr) : run.stderr[i] = Line("App: ", run.app)
           /\ IF run.flags.app # Empty
              THEN /\ run.app = run.flags.app
                   /\ ~Called(run, "Getenv HEROKU_APP") /\ ~Called(run, InfoCmd)
              ELSE IF run.env.app # Empty
              THEN run.app = run.env.app /\ ~Called(run, InfoCmd)
              ELSE \E i \in CallsOf(run, InfoCmd) :
                       ~run.calls[i].err /\ Captured(run.calls[i].args[1], run.app)
    /\ \A i \in CallsOf(run, InfoCmd) :
           run.calls[i].err =>
               /\ Exited(run) /\ run.exit = "1"
               /\ Len(run.calls) = i
               /\ run.client = "none"
    /\ (run.app = Empty
            /\ run.pc \notin {"FlagParse", "InfoCheck", "GetAppName", "HerokuInfo", "AppCheck"}) =>
           /\ Exited(run) /\ run.exit = "1"
           /\ run.client = "none"
           /\ \A i \in 1..Len(run.calls) :
                  run.calls[i].op \in {"Getenv HEROKU_APP", InfoCmd}
           /\ (\E i \in CallsOf(run, InfoCmd) : ~run.calls[i].err) =>
                  run.stderr[Len(run.stderr)].msg = "Usage:"

\* neither -app nor HEROKU_APP is set and the name came from the subprocess
C8_Witness ==
    /\ run.flags.app = Empty /\ run.env.app = Empty
    /\ Called(run, InfoCmd)
    /\ run.app = <<"w", "1">>
    /\ Logged(run, "App: ")
    /\ run.client = "built"

----------------------------------------------------------------------------
(* C9 *)

\* C9 as claimed: a run with -n makes no remote mutation call: no
\* SlugCreate, no HTTP upload, no release call.
C9_DryRunNoRemoteMutation ==
    run.flags.dryRun =>
        /\ ~Called(run, "SlugCreate")
        /\ ~Called(run, "http.Do")
        /\ ~Called(run, "ReleaseCreate")

\* C9 amended: a run with -n sends no HTTP upload and makes no release call,
\* and performs the local steps with their log lines; the slug is still
\* registered with Heroku (SlugCreate) when no -release is given.
C9_DryRunNoUploadNoRelease ==
    run.flags.dryRun =>
        /\ ~Called(run, "http.Do")
        /\ ~Called(run, "ReleaseCreate")
        /\ run.status = 0
        /\ Called(run, "SlugCreate") => run.flags.release = Empty
        /\ Logged(run, "Upload skipped (dry run)") =>
               /\ \E i \in CallsOf(run, "SlugCreate") : ~run.calls[i].err
               /\ Logged(run, "App: ") /\ Logged(run, "Processes: ")
               /\ Logged(run, "Slug file: ") /\ Logged(run, "Commit: ")
               /\ Logged(run, "Uploading slug: ")
        /\ (Exited(run) /\ run.exit = "0" /\ run.flags.release = Empty) =>
               Logged(run, "Upload skipped (dry run)")

\* a dry run that registered a slug, skipped the upload and the release and
\* reported the registered slug's id
C9_Witness ==
    /\ run.flags.dryRun /\ ~run.flags.noRelease
    /\ Exited(run) /\ run.exit = "0"
    /\ Called(run, "SlugCreate")
    /\ run.stdout = <<Line("Println", run.slug.id)>>

----------------------------------------------------------------------------
(* C10 *)

\* C10: when the run has ended, by main returning or by a fatal error, no
\* file the program opened is left unclosed.
C10_NoOpenFileAtExit ==
    Exited(run) => run.procfile # "open" /\ run.slugfile # "open"

====
